---- MODULE Spec2Model ----
(***************************************************************************)
(* Model of openmdao/utils/logger_utils.py: the module-level registry      *)
(* _loggers and the factory get_logger, together with the part of the      *)
(* logging library's state that get_logger reads and writes (each Logger   *)
(* object's handler list and level).                                       *)
(***************************************************************************)
EXTENDS Integers, Sequences, FiniteSets, TLC

\* ---------------------------------------------------------------- bounds
MaxNames == 2
MaxLevels == 2
MaxFiles == 1

\* ------------------------------------------------------------ input sets
AllNames == <<"default_logger", "a", "b", "c">>
AllFiles == <<"file1", "file2", "file3">>

Names == {AllNames[i] : i \in 1..MaxNames}
\* the default arguments of get_logger
DefaultName == AllNames[1]
DefaultLevel == 20
Files == {AllFiles[i] : i \in 1..MaxFiles}

\* Python's None, and the two bool values where they share a slot with None.
None == "None"
True == "True"
False == "False"

\* logging.DEBUG, logging.INFO, logging.WARNING, ... (10, 20, 30, ...)
Levels == {10 * i : i \in 1..MaxLevels}
\* the level of a Logger object nobody has set a level on
NOTSET == 0
\* severities of the messages a caller may log
Severities == {10 * i : i \in 1..(MaxLevels + 1)}

\* logging.WARNING: the level of the root logger and of logging.lastResort
WARNING == 30

\* the str literals 'stdout' and 'stderr' (one interned object each), and None
StdStreams == {"stdout", "stderr", None}
\* str objects built at run time that are equal to 'stdout' / 'stderr' without
\* being the literal's object
StdoutBuilt == "str 'stdout' built at run time"
StderrBuilt == "str 'stderr' built at run time"
BuiltStrs == {StdoutBuilt, StderrBuilt}
\* out_stream : 'stdout', 'stderr', a file-like object, or None
OutStreams == StdStreams \cup BuiltStrs \cup Files
\* lock : True, False or None (the default)
LockVals == {True, False, None}

VARIABLES
    _loggers,     \* the module dictionary: name -> [logger, stream, locked]
    loggerDict,   \* logging's Logger objects: object -> [handlers, level]
    last,         \* the most recent get_logger call: arguments, branch, result
    held          \* per name: a lock=True call was made and no lock=False since

vars == <<_loggers, loggerDict, last, held>>

\* Python truth value of the values that occur here (None and False are falsy;
\* stream names and file-like objects are truthy).
bool(v) == v \notin {None, False}

\* mutant of getLogger: every name is given the same Logger object
getLoggerShared(name) == DefaultName

\* logging.getLogger(name): one Logger object per name.
getLogger(name) == name

\* The value of an object under Python's ==: a str compares by its characters,
\* every other object here by identity.
Value(v) ==
    IF v = StdoutBuilt THEN "stdout"
    ELSE IF v = StderrBuilt THEN "stderr"
    ELSE v

\* a != b
NotEqual(a, b) == Value(a) # Value(b)

\* The stream of the StreamHandler _set_handler builds. The tests
\* "stream is 'stdout'" and "stream is 'stderr'" compare object identity, so
\* only the literal's object is replaced; any other object, a str included,
\* is handed to StreamHandler as it is, and StreamHandler(None) takes
\* sys.stderr.
ResolveStream(stream) ==
    IF stream = "stdout" THEN "sys.stdout"
    ELSE IF stream = "stderr" THEN "sys.stderr"
    ELSE IF stream = None THEN "sys.stderr"
    ELSE stream

Formatter(use_format) ==
    IF use_format THEN "%(levelname)s: %(message)s" ELSE None

\* _set_handler(logger, stream, level, use_format): the logger's handler
\* list after a new StreamHandler has been added.
_set_handler(handlers, stream, level, use_format) ==
    Append(handlers, [stream    |-> ResolveStream(stream),
                      formatter |-> Formatter(use_format),
                      level     |-> level])

\* list with the element at (1-based) position i removed
RemoveAt(s, i) == [j \in 1..(Len(s) - 1) |-> IF j < i THEN s[j] ELSE s[j + 1]]

\* "for handler in logger.handlers: logger.removeHandler(handler)":
\* the iteration walks positions 1, 2, ... of the list it is removing from.
RECURSIVE RemoveHandlersLoop(_, _)
RemoveHandlersLoop(handlers, i) ==
    IF i > Len(handlers) THEN handlers
    ELSE RemoveHandlersLoop(RemoveAt(handlers, i), i + 1)

\* mutants of ShouldRedirect: the lock is not consulted; the requested stream
\* is not compared with the stored one
RedirectIgnoringLock(out_stream, stream, locked, lock) ==
    NotEqual(out_stream, stream)

RedirectWithoutCompare(out_stream, stream, locked, lock) ==
    ~bool(locked) \/ lock = False

\* the condition of the redirect branch
ShouldRedirect(out_stream, stream, locked, lock) ==
    LET unlock == (lock = False)
    IN  NotEqual(out_stream, stream) /\ (~bool(locked) \/ unlock)

\* the value stored in info['locked'] on an existing entry
UpdateLocked(locked, lock) == lock

\* get_logger as a function of the state: the registry, the Logger objects
\* and the returned logger after the call.
get_logger(reg, objs, name, level, use_format, out_stream, lock) ==
    IF name \in DOMAIN reg
    THEN LET info == reg[name]
             logger == info.logger
             stream == info.stream
             locked == info.locked
             redirect == ShouldRedirect(out_stream, stream, locked, lock)
             removed == RemoveHandlersLoop(objs[logger].handlers, 1)
             hs == IF ~redirect THEN objs[logger].handlers
                   ELSE IF bool(out_stream)
                        THEN _set_handler(removed, out_stream, level, use_format)
                        ELSE removed
         IN  [reg    |-> [reg EXCEPT ![name] =
                             [logger |-> logger,
                              stream |-> IF redirect THEN out_stream ELSE stream,
                              locked |-> UpdateLocked(locked, lock)]],
              objs   |-> [objs EXCEPT ![logger].handlers = hs],
              branch |-> IF redirect THEN "redirect" ELSE "keep",
              ret    |-> logger]
    ELSE LET logger == getLogger(name)
             hs == IF bool(out_stream)
                   THEN _set_handler(objs[logger].handlers, out_stream, level, use_format)
                   ELSE objs[logger].handlers
         IN  [reg    |-> [n \in DOMAIN reg \cup {name} |->
                             IF n = name
                             THEN [logger |-> logger, stream |-> out_stream,
                                   locked |-> lock]
                             ELSE reg[n]],
              objs   |-> [objs EXCEPT ![logger] = [handlers |-> hs, level |-> level]],
              branch |-> "create",
              ret    |-> logger]

\* Logger.getEffectiveLevel: a logger without a level of its own takes the
\* root logger's (the names used here have no parent but the root).
getEffectiveLevel(objs, obj) ==
    IF objs[obj].level # NOTSET THEN objs[obj].level ELSE WARNING

\* Logger.handle as configured above: is a message of severity sev logged on
\* logger object obj written to stream s? The effective level must let it
\* through; then every handler whose level accepts it writes it to its stream
\* (a handler built on a str cannot write), and a logger without any handler
\* falls back on logging.lastResort, a WARNING handler on sys.stderr.
Reaches(objs, obj, sev, s) ==
    /\ sev >= getEffectiveLevel(objs, obj)
    /\ IF Len(objs[obj].handlers) = 0
       THEN s = "sys.stderr" /\ sev >= WARNING
       ELSE \E i \in 1..Len(objs[obj].handlers) :
               /\ objs[obj].handlers[i].stream = s
               /\ s \notin BuiltStrs
               /\ sev >= objs[obj].handlers[i].level

NoCall == [name |-> None, level |-> NOTSET, use_format |-> FALSE,
           out_stream |-> None, lock |-> None, branch |-> "none",
           ret |-> None, pre_stream |-> None, pre_locked |-> None]

Init ==
    /\ _loggers = <<>>
    /\ loggerDict = [o \in Names |-> [handlers |-> <<>>, level |-> NOTSET]]
    /\ last = NoCall
    /\ held = [n \in Names |-> FALSE]

\* one call get_logger(name, level, use_format, out_stream, lock)
GetLogger(name, level, use_format, out_stream, lock) ==
    LET r == get_logger(_loggers, loggerDict, name, level, use_format,
                        out_stream, lock)
    IN  /\ _loggers' = r.reg
        /\ loggerDict' = r.objs
        /\ last' = [name |-> name, level |-> level, use_format |-> use_format,
                    out_stream |-> out_stream, lock |-> lock,
                    branch |-> r.branch, ret |-> r.ret,
                    pre_stream |-> IF name \in DOMAIN _loggers
                                   THEN _loggers[name].stream ELSE None,
                    pre_locked |-> IF name \in DOMAIN _loggers
                                   THEN _loggers[name].locked ELSE None]
        /\ held' = [held EXCEPT ![name] =
                       IF lock = True THEN TRUE
                       ELSE IF lock = False THEN FALSE
                       ELSE @]

\* Calls on the default logger with every level, format, stream and lock.
Next ==
    \E level \in Levels, use_format \in BOOLEAN,
       out_stream \in OutStreams, lock \in LockVals :
        GetLogger(DefaultName, level, use_format, out_stream, lock)

Spec == Init /\ [][Next]_vars

\* Calls on several names with the default level and format.
NextNames ==
    \E name \in Names, out_stream \in StdStreams, lock \in LockVals :
        GetLogger(name, DefaultLevel, FALSE, out_stream, lock)

SpecNames == Init /\ [][NextNames]_vars

TypeOK ==
    /\ DOMAIN _loggers \subseteq Names
    /\ \A n \in DOMAIN _loggers :
          /\ _loggers[n].logger \in Names
          /\ _loggers[n].stream \in OutStreams
          /\ _loggers[n].locked \in LockVals
    /\ \A o \in Names : loggerDict[o].level \in Levels \cup {NOTSET}

\* ------------------------------------------------------------ properties
\* the handler list of the Logger object registered under name n
Sinks(n) == loggerDict[_loggers[n].logger].handlers

\* the last call found an entry for its name
OnExisting == last.branch \in {"redirect", "keep"}

\* The stream a destination stands for: standard output for 'stdout', standard
\* error for 'stderr' (whichever str object spells the name), the object itself
\* for a file-like object.
Destination(d) ==
    IF Value(d) = "stdout" THEN "sys.stdout"
    ELSE IF Value(d) = "stderr" THEN "sys.stderr"
    ELSE d

\* the sink the last call asks for: on its destination, with its level and format
RequestedSink == [stream    |-> Destination(last.out_stream),
                  formatter |-> Formatter(last.use_format),
                  level     |-> last.level]

\* C1: once a call passed lock=True for a name, and as long as no call passes
\* lock=False for it, no call changes the entry's stored destination or its
\* attached sink.
C1_LockHoldsUntilUnlocked ==
    [][\A n \in DOMAIN _loggers :
          (held[n] /\ held'[n]) =>
              /\ _loggers'[n].stream = _loggers[n].stream
              /\ loggerDict'[_loggers'[n].logger].handlers = Sinks(n)]_vars

\* C2: when the previous call for the name passed lock=True, a call with a
\* different destination and lock absent or True leaves the stored destination
\* and the sink as they were.
C2_LockedResistsNextCall ==
    [][(/\ last.branch # "none"
        /\ last.lock = True
        /\ last'.name = last.name
        /\ last'.lock # False
        /\ NotEqual(last'.out_stream, _loggers[last.name].stream))
       => /\ _loggers'[last.name].stream = _loggers[last.name].stream
          /\ loggerDict'[_loggers'[last.name].logger].handlers = Sinks(last.name)]_vars

\* C2 witness: the scenario's last step, a call asking for stdout without lock
\* on an entry locked on stderr, which still writes to stderr.
C2_Witness ==
    /\ OnExisting
    /\ last.pre_locked = True /\ last.pre_stream = "stderr"
    /\ last.out_stream = "stdout" /\ last.lock = None
    /\ _loggers[last.name].stream = "stderr"
    /\ Len(Sinks(last.name)) = 1
    /\ Sinks(last.name)[1].stream = "sys.stderr"

\* C3: a call with lock=False and a new destination on a locked entry stores
\* the new destination, leaves exactly one sink, directed at the new
\* destination (none when the new destination is None), none directed at the
\* old one, and unlocks the entry.
C3_UnlockAppliesInSameCall ==
    (/\ OnExisting
     /\ last.pre_locked = True
     /\ last.lock = False
     /\ NotEqual(last.out_stream, last.pre_stream))
    => /\ _loggers[last.name].stream = last.out_stream
       /\ _loggers[last.name].locked = False
       /\ Sinks(last.name) = IF last.out_stream = None THEN <<>>
                             ELSE <<RequestedSink>>
       /\ \A i \in 1..Len(Sinks(last.name)) :
             last.pre_stream # None =>
                 Sinks(last.name)[i].stream # Destination(last.pre_stream)

\* C4: a call with lock absent (None) on an existing entry leaves the entry
\* locked if it was locked and unlocked if it was unlocked.
C4_AbsentLockKeepsState ==
    (OnExisting /\ last.lock = None)
    => ((_loggers[last.name].locked = True) <=> (last.pre_locked = True))

\* C5: from every reachable state and for every argument tuple, a second
\* identical call returns the same logger and leaves the stored destination,
\* the lock state and the sinks as the first call left them.
C5_Idempotent ==
    \A level \in Levels, use_format \in BOOLEAN,
       out_stream \in OutStreams, lock \in LockVals :
        LET r1 == get_logger(_loggers, loggerDict, DefaultName, level,
                             use_format, out_stream, lock)
            r2 == get_logger(r1.reg, r1.objs, DefaultName, level,
                             use_format, out_stream, lock)
        IN  /\ r2.ret = r1.ret
            /\ r2.reg[DefaultName] = r1.reg[DefaultName]
            /\ r2.objs[r2.ret].handlers = r1.objs[r1.ret].handlers

\* C6: a call for one name leaves every other registered name registered, with
\* the same logger, stored destination, lock state, sinks and level, registers
\* no name but its own, and no two names ever share a Logger object.
C6_NamesIndependent ==
    [][/\ DOMAIN _loggers' \subseteq DOMAIN _loggers \cup {last'.name}
       /\ \A m \in DOMAIN _loggers :
             m # last'.name =>
                 /\ m \in DOMAIN _loggers'
                 /\ _loggers'[m] = _loggers[m]
                 /\ loggerDict'[_loggers'[m].logger] = loggerDict[_loggers[m].logger]
       /\ \A m, n \in DOMAIN _loggers' :
             m # n => _loggers'[m].logger # _loggers'[n].logger]_vars

\* C6 witness: two names are registered on different destinations with
\* different lock states, and the last call redirected one of them.
C6_Witness ==
    /\ last.branch = "redirect"
    /\ \E m \in DOMAIN _loggers :
          /\ m # last.name
          /\ _loggers[m].stream # None
          /\ _loggers[m].stream # _loggers[last.name].stream
          /\ _loggers[m].locked = True
          /\ _loggers[last.name].locked # True
          /\ Len(Sinks(m)) = 1 /\ Len(Sinks(last.name)) = 1

\* C7: creating an entry with destination None attaches no sink, and a later
\* call that supplies a destination leaves one sink, directed at that
\* destination, and stores the destination. The later calls are taken where no
\* lock stands in their way (the entry is not locked, or the call passes
\* lock=False), so every state that violates this violates the claim as stated.
C7_AbsentThenSupplied ==
    /\ (last.branch = "create" /\ last.out_stream = None)
           => Sinks(last.name) = <<>>
    /\ (/\ OnExisting /\ last.out_stream # None
        /\ (last.pre_locked # True \/ last.lock = False))
           => /\ Value(_loggers[last.name].stream) = Value(last.out_stream)
              /\ Len(Sinks(last.name)) = 1
              /\ Sinks(last.name)[1].stream = Destination(last.out_stream)

\* C8: every registered name has at most one sink; it has one exactly when its
\* stored destination is not None, and that one is directed at the stored
\* destination.
C8_OneSinkPerName ==
    \A n \in DOMAIN _loggers :
        /\ Len(Sinks(n)) <= 1
        /\ (Len(Sinks(n)) = 1) <=> (_loggers[n].stream # None)
        /\ \A i \in 1..Len(Sinks(n)) :
              Sinks(n)[i].stream = Destination(_loggers[n].stream)

\* C9: a call on an existing entry whose requested destination equals the
\* stored one leaves the logger's sinks (with their level and format) and the
\* logger's level as they were, whatever level, format and lock it passes.
C9_SameDestinationKeepsSink ==
    [][(/\ last'.name \in DOMAIN _loggers
        /\ ~NotEqual(last'.out_stream, _loggers[last'.name].stream))
       => loggerDict'[_loggers'[last'.name].logger]
              = loggerDict[_loggers[last'.name].logger]]_vars

\* C9 witness: a call with lock=False, the stored destination and a level and
\* format other than the sink's.
C9_Witness ==
    /\ last.branch = "keep"
    /\ last.lock = False
    /\ last.out_stream = _loggers[last.name].stream
    /\ Len(Sinks(last.name)) = 1
    /\ Sinks(last.name)[1].level # last.level
    /\ Sinks(last.name)[1].formatter # Formatter(last.use_format)

\* C10: after a call redirected an unlocked entry to a new destination with
\* level L, a message logged on the returned logger reaches that destination
\* exactly when its severity is at least L.
C10_RedirectHonoursLevel ==
    (/\ last.branch = "redirect"
     /\ last.pre_locked # True
     /\ last.out_stream # None)
    => \A sev \in Severities :
          Reaches(loggerDict, last.ret, sev, Destination(last.out_stream))
              <=> sev >= last.level
====
